---- MODULE Spec2Model ----
(***************************************************************************)
(* powerpricecheck: day-ahead electricity prices, a one hour cache and the *)
(* cheapest-window recommendation.                                         *)
(*                                                                         *)
(* Three programs of the repository are modelled:                          *)
(*   "nodered"  src/node-red-function.js (cache in the global context)     *)
(*   "library"  src/unnamed/part_002 (powerpricecheck.js over the          *)
(*              entsoe-client of src/unnamed/part_001, lines 110-325)      *)
(*   "legacy"   src/powerpricecheck.js, lines 1-214 (the same library      *)
(*              before the end time of the window was changed)             *)
(*                                                                         *)
(* Instants are milliseconds since the epoch, as in the code.  Prices are  *)
(* integers: an upstream amount is in 1/100 EUR/MWh, a stored price is in  *)
(* 1/100 euro cent per kWh (the code rounds every stored price to two      *)
(* decimals).  Averages are compared exactly (as fractions); the code's    *)
(* binary floating point is not modelled.  An ISO timestamp string is      *)
(* modelled by the instant it denotes.  The server's time zone is taken to *)
(* be a whole number of hours from UTC, so Date.setMinutes(0,0,0) is the   *)
(* truncation to the UTC hour.                                             *)
(***************************************************************************)
EXTENDS Integers, Sequences, FiniteSets, TLC

VARIABLES
    program,           \* which of the three programs this behaviour runs
    clock,             \* wall clock, ms (Date.now())
    apiKey,            \* whether ENTSOE_API_KEY / ENTSOE_API_TOKEN is configured
    entsoePriceCache,  \* nodered: global context entry, <<>> (absent/null) or <<entry>>
    priceCache,        \* library: module variable priceCache of the entsoe client
    reqs,              \* the requests in flight: one record per handler invocation
    out,               \* what the request that completed in the last step returned
    fnIn               \* SpecFn only: the inputs of the single evaluated call

vars == <<program, clock, apiKey, entsoePriceCache, priceCache, reqs, out, fnIn>>

----------------------------------------------------------------------------
(* Bounds of the model *)

\* The clock advances at most this many half-hour ticks.
MaxTicks == 2

\* Handler invocations that may overlap.
MaxReq == 2

\* Highest point position in an upstream period (Spec: the stateful model).
MaxPos == 2

\* Highest point position in an upstream period (SpecFn: one evaluated call).
MaxPosFn == 3

----------------------------------------------------------------------------
(* Program constants *)

MS_PER_MINUTE == 60 * 1000

MS_PER_HOUR == 60 * 60 * 1000

CACHE_LIFESPAN == 60 * 60 * 1000

InitialExpiryMs == 60 * 60 * 1000

\* Europe/Amsterdam in winter (CET): the clock time is UTC + 1 hour.
AmsterdamOffsetHours == 1

DefaultLookAheadNodeRed == 6

DefaultLookAheadLibrary == 24

MaxLookAheadNodeRed == 168

----------------------------------------------------------------------------
(* Model granularity *)

TickMs == 30 * MS_PER_MINUTE

\* The first instant of a behaviour: 22:00 UTC on the second day of the epoch.
T0 == (24 + 22) * MS_PER_HOUR

Min(a, b) == IF a < b THEN a ELSE b

Max(a, b) == IF a > b THEN a ELSE b

None == <<>>

Some(x) == <<x>>

RECURSIVE SetToSortedSeq(_)
SetToSortedSeq(S) ==
    IF S = {} THEN <<>>
    ELSE LET m == CHOOSE x \in S : \A y \in S : x <= y
         IN  <<m>> \o SetToSortedSeq(S \ {m})

----------------------------------------------------------------------------
(* JavaScript primitives *)

\* Math.round(n / d) for d > 0: round half up.
RoundDiv(n, d) == (2 * n + d) \div (2 * d)

\* Array.prototype.slice(a, b) on a 0-based array: negative indices count from
\* the end, out-of-range indices are clamped.
JsSlice(s, a, b) ==
    LET len  == Len(s)
        from == IF a < 0 THEN Max(len + a, 0) ELSE Min(a, len)
        to   == IF b < 0 THEN Max(len + b, 0) ELSE Min(b, len)
    IN  IF from < to THEN SubSeq(s, from + 1, to) ELSE <<>>

\* date.setMinutes(0, 0, 0): the start of the hour containing t.
TruncHour(t) == t - (t % MS_PER_HOUR)

\* date.setUTCHours(0, 0, 0, 0): the start of the UTC day containing t.
TruncDay(t) == t - (t % (24 * MS_PER_HOUR))

\* A price.amount that parseFloat cannot read (absent, empty or not numeric),
\* and the NaN price it becomes; neither is a value a numeric amount takes.
NonNumericAmount == 999999999

NaNPrice == 99999999

\* Some price of the entries is NaN (so their sum and mean are NaN).
HasNaN(s) == \E i \in DOMAIN s : s[i].price = NaNPrice

RECURSIVE SumPrices(_)
SumPrices(s) ==
    IF s = <<>> THEN 0 ELSE s[1].price + SumPrices(Tail(s))

\* A raw input value: a number n (+ 1/2 when frac), a non-numeric string, or
\* undefined (the field is absent).
Num(n) == [t |-> "num", n |-> n, frac |-> FALSE]

NumHalf(n) == [t |-> "num", n |-> n, frac |-> TRUE]

Undefined == [t |-> "undef", n |-> 0, frac |-> FALSE]

Text == [t |-> "str", n |-> 0, frac |-> FALSE]

\* parseInt(v): the integer part of a number (toward zero; a fraction is only
\* modelled on n >= 0), NaN for a non-numeric string or undefined.
ParseInt(v) ==
    IF v.t = "num" THEN [nan |-> FALSE, v |-> v.n] ELSE [nan |-> TRUE, v |-> 0]

\* Truthiness of a raw value: undefined, 0 and NaN are falsy, "abc" is truthy.
Truthy(v) == v.t = "str" \/ (v.t = "num" /\ (v.n # 0 \/ v.frac))

----------------------------------------------------------------------------
(* The upstream response: a sequence of periods (one per TimeSeries), each  *)
(* [start, resolution, points], a point being [position, amount].           *)

\* SpecFn: the resolutions and the upstream amounts (1/100 EUR/MWh: -50.04,
\* 0.00, 70.00 and 120.00 EUR/MWh; day-ahead prices do go to zero and below)
\* of a response.
Resolutions == {"PT60M", "PT30M", "PT15M", "P1D"}

Amounts == {-5004, 0, 7000, 12000}

\* Spec: the same, narrower, and a point whose amount is not numeric.
SpecResolutions == {"PT60M"}

SpecAmounts == {7000, NonNumericAmount}

\* The minutes one point of a period really covers.
RealMinutes(resolution) ==
    CASE resolution = "PT15M" -> 15
      [] resolution = "PT30M" -> 30
      [] resolution = "PT60M" -> 60
      [] OTHER -> 24 * 60

\* The code's resolution in minutes: 60 unless PT15M or PT30M.
ResolutionMinutes(resolution) ==
    IF resolution = "PT15M" THEN 15
    ELSE IF resolution = "PT30M" THEN 30
    ELSE 60

\* parseFloat(point["price.amount"]) / 10, then Math.round(price * 100) / 100,
\* in 1/100 cent; NaN stays NaN.
ToCentsKwh(amount) ==
    IF amount = NonNumericAmount THEN NaNPrice ELSE RoundDiv(amount, 10)

\* The point sequences over positions 1..maxPos: any non-empty set of
\* positions (a position may be missing), in ascending position order.
PointSeqs(maxPos, amounts) ==
    LET choices == UNION {[S -> amounts] : S \in (SUBSET (1..maxPos)) \ {{}}}
        AsSeq(f) == LET ks == SetToSortedSeq(DOMAIN f)
                    IN  [i \in 1..Len(ks) |-> [position |-> ks[i], amount |-> f[ks[i]]]]
    IN  {AsSeq(f) : f \in choices}

\* The periods the market-data API may return for the range [from, to): they
\* start on one of `starts` and every point really lies inside the range.
Periods(starts, from, to, resolutions, maxPos, amounts) ==
    {p \in [start : starts, resolution : resolutions, points : PointSeqs(maxPos, amounts)] :
        /\ p.start >= from
        /\ \A i \in DOMAIN p.points :
              p.start + (p.points[i].position - 1) * RealMinutes(p.resolution) * MS_PER_MINUTE < to}

\* The responses for a range: a single period.
Responses(starts, from, to, resolutions, maxPos, amounts) ==
    {<<p>> : p \in Periods(starts, from, to, resolutions, maxPos, amounts)}

----------------------------------------------------------------------------
(* nodered: parsing and hourly aggregation *)

\* The timestamps with the 1-based position used as it is: every entry one
\* resolution step late.
ParsePointsZeroBased(period) ==
    [i \in DOMAIN period.points |->
        [timestamp |-> period.start
                         + period.points[i].position
                           * ResolutionMinutes(period.resolution) * 60 * 1000,
         price |-> ToCentsKwh(period.points[i].amount)]]

\* points.forEach: one entry per point, timestamp = periodStart + (position-1)
\* * resolutionMinutes minutes, price converted and rounded.
ParsePoints(period) ==
    [i \in DOMAIN period.points |->
        [timestamp |-> period.start
                         + (period.points[i].position - 1)
                           * ResolutionMinutes(period.resolution) * 60 * 1000,
         price |-> ToCentsKwh(period.points[i].amount)]]

\* timeSeriesArray.forEach: the entries of all series, in arrival order.
RECURSIVE NrParse(_)
NrParse(resp) ==
    IF resp = <<>> THEN <<>> ELSE ParsePoints(resp[1]) \o NrParse(Tail(resp))

PricesInHour(prices, hourKey) ==
    SelectSeq(prices, LAMBDA p : TruncHour(p.timestamp) = hourKey)

\* The aggregation with pricesByHour.set(hourKey, p.price): the last price of
\* an hour replaces the earlier ones.
AggregateHourlyLastWins(prices) ==
    LET keys == SetToSortedSeq({TruncHour(prices[i].timestamp) : i \in DOMAIN prices})
    IN  [k \in 1..Len(keys) |->
            [timestamp |-> keys[k],
             price |-> LET inHour == PricesInHour(prices, keys[k])
                       IN  inHour[Len(inHour)].price]]

\* pricesByHour / hourlyPrices: one entry per hour key, the mean of the prices
\* of that hour rounded to two decimals, sorted by timestamp.
AggregateHourly(prices) ==
    LET keys == SetToSortedSeq({TruncHour(prices[i].timestamp) : i \in DOMAIN prices})
    IN  [k \in 1..Len(keys) |->
            [timestamp |-> keys[k],
             price |-> IF HasNaN(PricesInHour(prices, keys[k])) THEN NaNPrice
                       ELSE RoundDiv(SumPrices(PricesInHour(prices, keys[k])),
                                     Len(PricesInHour(prices, keys[k])))]]

----------------------------------------------------------------------------
(* The slot scan, shared by the three programs *)

\* The comparison with <= in place of <: a slot that only equals the best
\* average so far replaces it.
AvgLessOrEqual(slot, best) ==
    /\ Len(slot) > 0
    /\ ~HasNaN(slot)
    /\ \/ Len(best) = 0
       \/ SumPrices(slot) * Len(best) <= SumPrices(best) * Len(slot)

\* avgPrice < lowestAvgPrice, for the slot's average against the average of
\* the best slot so far: <<>> as best is Infinity, an empty slot's average
\* is NaN (0 / 0), which is less than nothing, as is the average of a slot
\* with a NaN price.
AvgLess(slot, best) ==
    /\ Len(slot) > 0
    /\ ~HasNaN(slot)
    /\ \/ Len(best) = 0
       \/ SumPrices(slot) * Len(best) < SumPrices(best) * Len(slot)

\* The loop with the bound i < list.length - duration: the last window is
\* never looked at.
RECURSIVE ScanFromSkipLast(_, _, _, _)
ScanFromSkipLast(list, duration, i, best) ==
    IF i >= Len(list) - duration THEN best
    ELSE LET slot == JsSlice(list, i, i + duration)
         IN  ScanFromSkipLast(list, duration, i + 1,
                              IF AvgLess(slot, best) THEN slot ELSE best)

\* for (i = 0; i <= list.length - duration; i++): the best slot after the
\* iterations from i on, given the best slot before them.
RECURSIVE ScanFrom(_, _, _, _)
ScanFrom(list, duration, i, best) ==
    IF i > Len(list) - duration THEN best
    ELSE LET slot == JsSlice(list, i, i + duration)
         IN  ScanFrom(list, duration, i + 1, IF AvgLess(slot, best) THEN slot ELSE best)

\* The loop started at i = 1: the first window is never looked at.
FindBestSlotSkipFirst(list, duration) == ScanFrom(list, duration, 1, <<>>)

\* bestSlot after the loop; <<>> is null.
FindBestSlot(list, duration) == ScanFrom(list, duration, 0, <<>>)

----------------------------------------------------------------------------
(* What a completed request returned, with the inputs it was computed from. *)
(* status: "success", "error" (a structured error result) or "thrown" (an   *)
(* exception; nodered logs it and sends nothing).                           *)

NoClock == [hour |-> 0, minute |-> 0]

\* A JavaScript number that a division produced: a finite value v (in the
\* unit of the field that holds it), NaN, Infinity or -Infinity.
Finite(v) == [t |-> "num", v |-> v]

NaN == [t |-> "NaN", v |-> 0]

PosInfinity == [t |-> "Infinity", v |-> 0]

NegInfinity == [t |-> "-Infinity", v |-> 0]

\* A field that was not computed.
NoNumber == [t |-> "none", v |-> 0]

NoOut ==
    [done |-> FALSE, op |-> "", now |-> 0, rawD |-> Undefined, rawL |-> Undefined,
     duration |-> 0, lookAhead |-> 0,
     lookedUp |-> FALSE, cacheAge |-> None, cacheData |-> None, fetched |-> FALSE,
     served |-> <<>>, candidates |-> <<>>,
     status |-> "", kind |-> "", bestSlot |-> <<>>,
     startInstant |-> 0, endInstant |-> 0, start |-> NoClock, end |-> NoClock,
     currentPrice |-> None, savings |-> NoNumber, savingsPercentage |-> NoNumber,
     message |-> "", stored |-> FALSE,
     rawH |-> Undefined, hours |-> 0, result |-> <<>>,
     apiKey |-> FALSE]

ErrorOut(base, kind) == [base EXCEPT !.done = TRUE, !.status = "error", !.kind = kind]

ThrownOut(base, kind) == [base EXCEPT !.done = TRUE, !.status = "thrown", !.kind = kind]

----------------------------------------------------------------------------
(* nodered: the main handler *)

\* Intl.DateTimeFormat("en-NL", {timeZone: "Europe/Amsterdam", hour, minute}):
\* the clock time HH:MM of an instant.
ClockTime(t) ==
    [hour |-> ((t \div MS_PER_HOUR) + AmsterdamOffsetHours) % 24,
     minute |-> (t % MS_PER_HOUR) \div MS_PER_MINUTE]

\* msg.payload.lookAheadHours || 6
NrLookAhead(rawL) == IF Truthy(rawL) THEN rawL ELSE Num(DefaultLookAheadNodeRed)

\* typeof lookAheadHours !== 'number' || lookAheadHours < 1 || lookAheadHours > 168
NrLookAheadInvalid(l) == l.t # "num" \/ l.n < 1 \/ l.n > MaxLookAheadNodeRed

\* parseInt(msg.payload.duration) || 1
NrDuration(rawD) ==
    LET p == ParseInt(rawD) IN IF p.nan \/ p.v = 0 THEN 1 ELSE p.v

\* The end as the start of the last included hour (what the legacy library
\* reports), in place of start + duration.
NrEndDateLastEntry(bestSlot, duration) == bestSlot[Len(bestSlot)].timestamp

\* endDate = new Date(startDate.getTime() + duration * 60 * 60 * 1000)
NrEndDate(bestSlot, duration) == bestSlot[1].timestamp + duration * 60 * 60 * 1000

\* savings = currentPriceValue - lowestAvgPrice, reported as
\* Math.round(savings * 100) / 100, in 1/100 cent.
NrSavings(currentPriceValue, bestSlot) ==
    IF currentPriceValue = NaNPrice THEN NaN
    ELSE Finite(RoundDiv(currentPriceValue * Len(bestSlot) - SumPrices(bestSlot),
                         Len(bestSlot)))

\* currentPriceValue > 0 ? Math.round((savings / currentPriceValue) * 10000) / 100 : 0,
\* in 1/100 percent; lowestAvgPrice is the unrounded mean of bestSlot.
NrSavingsPercentage(currentPriceValue, bestSlot) ==
    IF currentPriceValue # NaNPrice /\ currentPriceValue > 0
    THEN Finite(RoundDiv(10000 * (currentPriceValue * Len(bestSlot) - SumPrices(bestSlot)),
                         Len(bestSlot) * currentPriceValue))
    ELSE Finite(0)

\* if (savings > 0) ... else if (savings < 0) ... else ...: which of the three
\* message texts is built, by the sign of the unrounded savings.
NrMessage(currentPriceValue, bestSlot) ==
    LET savingsTimesLen == currentPriceValue * Len(bestSlot) - SumPrices(bestSlot)
    IN  IF currentPriceValue = NaNPrice THEN "sameAsCurrent"
        ELSE IF savingsTimesLen > 0 THEN "potentialSavings"
        ELSE IF savingsTimesLen < 0 THEN "moreThanCurrent"
        ELSE "sameAsCurrent"

\* The handler from the aggregation on (lines 237-379), for the prices that
\* getCachedPriceData returned.
NrRespond(base, prices, op, rawD) ==
    LET hourlyPrices == AggregateHourly(prices)
        duration     == NrDuration(rawD)
        bestSlot     == FindBestSlot(hourlyPrices, duration)
        current      == SelectSeq(hourlyPrices, LAMBDA p : p.timestamp = TruncHour(base.now))
        b            == [base EXCEPT !.op = op, !.rawD = rawD, !.served = prices,
                                     !.candidates = hourlyPrices]
    IN  IF op # "recommendBestTime" THEN ErrorOut(b, "invalidAction")
        ELSE IF bestSlot = <<>>
             THEN ErrorOut([b EXCEPT !.duration = duration], "notEnoughData")
        ELSE IF current = <<>>
             THEN ErrorOut([b EXCEPT !.duration = duration, !.bestSlot = bestSlot],
                           "noCurrentPrice")
        ELSE [b EXCEPT !.done = TRUE, !.status = "success", !.duration = duration,
                       !.bestSlot = bestSlot,
                       !.startInstant = bestSlot[1].timestamp,
                       !.endInstant = NrEndDate(bestSlot, duration),
                       !.start = ClockTime(bestSlot[1].timestamp),
                       !.end = ClockTime(NrEndDate(bestSlot, duration)),
                       !.currentPrice = Some(current[1].price),
                       !.savings = NrSavings(current[1].price, bestSlot),
                       !.savingsPercentage = NrSavingsPercentage(current[1].price, bestSlot),
                       !.message = NrMessage(current[1].price, bestSlot)]

----------------------------------------------------------------------------
(* library: the entsoe client's parsing and the recommendation *)

\* Insert e after every entry whose timestamp is not later (Array.sort is stable).
RECURSIVE InsertByTimestamp(_, _)
InsertByTimestamp(s, e) ==
    IF s = <<>> THEN <<e>>
    ELSE IF s[Len(s)].timestamp <= e.timestamp THEN Append(s, e)
    ELSE Append(InsertByTimestamp(SubSeq(s, 1, Len(s) - 1), e), s[Len(s)])

RECURSIVE SortByTimestamp(_)
SortByTimestamp(s) ==
    IF s = <<>> THEN <<>>
    ELSE InsertByTimestamp(SortByTimestamp(SubSeq(s, 1, Len(s) - 1)), s[Len(s)])

\* parseEntsoeXml: the entries of all periods, sorted by timestamp.
LibParse(resp) == SortByTimestamp(NrParse(resp))

\* The period label of an entry against the current hour.
PeriodOf(timestamp, now) ==
    IF TruncHour(timestamp) < TruncHour(now) THEN "past"
    ELSE IF TruncHour(timestamp) = TruncHour(now) THEN "current"
    ELSE "future"

\* categorizedPrices
Categorize(prices, now) ==
    [i \in DOMAIN prices |->
        [timestamp |-> prices[i].timestamp, price |-> prices[i].price,
         period |-> PeriodOf(prices[i].timestamp, now)]]

\* A default parameter value: used when the argument is undefined.
DefaultTo(raw, d) == IF raw.t = "undef" THEN d ELSE raw.n

\* endDate = new Date(startDate.getTime() + durationHours * MS_PER_HOUR)
LibEndTime(slot, durationHours) == slot[1].timestamp + durationHours * MS_PER_HOUR

\* src/powerpricecheck.js: endTime: slot[slot.length - 1].timestamp
LegacyEndTime(slot, durationHours) == slot[Len(slot)].timestamp

\* prices.filter(current or future).slice(0, lookAheadHours)
LibCandidates(prices, lookAheadHours) ==
    JsSlice(SelectSeq(prices, LAMBDA p : p.period \in {"current", "future"}),
            0, lookAheadHours)

\* src/powerpricecheck.js: ... .slice(0, lookAheadHours + 1)
LegacyCandidates(prices, lookAheadHours) ==
    JsSlice(SelectSeq(prices, LAMBDA p : p.period \in {"current", "future"}),
            0, lookAheadHours + 1)

\* The test with "no entries at all" in place of "fewer than the duration".
NotEnoughDataOnlyEmpty(currentAndFuture, durationHours) == Len(currentAndFuture) = 0

\* currentAndFuture.length < durationHours
NotEnoughData(currentAndFuture, durationHours) == Len(currentAndFuture) < durationHours

\* potentialSavings = Math.round((currentPrice - lowestAvgPrice) * 100) / 100,
\* in 1/100 cent; lowestAvgPrice is still Infinity when no slot was taken.
LibPotentialSavings(currentPrice, bestSlot) ==
    IF currentPrice = NaNPrice THEN NaN
    ELSE IF bestSlot = <<>> THEN NegInfinity
    ELSE Finite(RoundDiv(currentPrice * Len(bestSlot) - SumPrices(bestSlot), Len(bestSlot)))

\* savingsPercentage = Math.round((potentialSavings / currentPrice) * 10000) / 100,
\* in 1/100 percent: the division is not guarded, so a current price of 0
\* gives NaN or an infinity and a negative one flips the sign.
LibSavingsPercentage(potentialSavings, currentPrice) ==
    IF potentialSavings.t = "NaN" \/ currentPrice = NaNPrice THEN NaN
    ELSE IF potentialSavings.t = "-Infinity"
    THEN IF currentPrice < 0 THEN PosInfinity ELSE NegInfinity
    ELSE IF currentPrice > 0 THEN Finite(RoundDiv(10000 * potentialSavings.v, currentPrice))
    ELSE IF currentPrice < 0 THEN Finite(RoundDiv(-10000 * potentialSavings.v, -currentPrice))
    ELSE IF potentialSavings.v = 0 THEN NaN
    ELSE IF potentialSavings.v > 0 THEN PosInfinity
    ELSE NegInfinity

\* message: potentialSavings > 0 ? `Wait until ... to save ...` :
\* 'Current time is already optimal'.
LibMessage(potentialSavings) ==
    IF potentialSavings.t = "num" /\ potentialSavings.v > 0 THEN "potentialSavings"
    ELSE "alreadyOptimal"

\* recommendBestTime after getPriceData returned `prices`; `legacy` selects the
\* two places where src/powerpricecheck.js differs from src/unnamed/part_002.
Recommend(base, prices, rawD, rawL, legacy) ==
    LET durationHours    == DefaultTo(rawD, 1)
        lookAheadHours   == DefaultTo(rawL, DefaultLookAheadLibrary)
        currentAndFuture == IF legacy THEN LegacyCandidates(prices, lookAheadHours)
                            ELSE LibCandidates(prices, lookAheadHours)
        bestSlot         == FindBestSlot(currentAndFuture, durationHours)
        b == [base EXCEPT !.op = "recommendBestTime", !.rawD = rawD, !.rawL = rawL,
                          !.duration = durationHours, !.lookAhead = lookAheadHours,
                          !.served = prices, !.candidates = currentAndFuture]
    IN  IF NotEnoughData(currentAndFuture, durationHours) THEN ErrorOut(b, "notEnoughData")
        ELSE IF currentAndFuture = <<>> THEN ThrownOut(b, "TypeError")
        ELSE [b EXCEPT !.done = TRUE, !.status = "success", !.bestSlot = bestSlot,
                       !.startInstant = IF bestSlot = <<>> THEN 0 ELSE bestSlot[1].timestamp,
                       !.endInstant = IF bestSlot = <<>> THEN 0
                                      ELSE IF legacy THEN LegacyEndTime(bestSlot, durationHours)
                                      ELSE LibEndTime(bestSlot, durationHours),
                       !.currentPrice = Some(currentAndFuture[1].price),
                       !.savings = LibPotentialSavings(currentAndFuture[1].price, bestSlot),
                       !.savingsPercentage =
                           LibSavingsPercentage(
                               LibPotentialSavings(currentAndFuture[1].price, bestSlot),
                               currentAndFuture[1].price),
                       !.message =
                           LibMessage(LibPotentialSavings(currentAndFuture[1].price, bestSlot))]

\* The fields of an entry that the price queries return.
PriceOf(p) == [timestamp |-> p.timestamp, price |-> p.price]

\* getPastPrices(hours = 24): prices.filter(past).slice(-hours)
GetPastPrices(base, prices, rawH) ==
    LET hours      == DefaultTo(rawH, 24)
        past       == SelectSeq(prices, LAMBDA p : p.period = "past")
        pastPrices == JsSlice(past, -hours, Len(past))
    IN  [base EXCEPT !.done = TRUE, !.op = "getPastPrices", !.status = "success",
                     !.rawH = rawH, !.hours = hours, !.served = prices,
                     !.result = [i \in DOMAIN pastPrices |-> PriceOf(pastPrices[i])]]

\* getFuturePrices with the slice of getPastPrices, slice(-hours): the last
\* entries instead of the first.
GetFuturePricesLast(base, prices, rawH) ==
    LET hours        == DefaultTo(rawH, 24)
        future       == SelectSeq(prices, LAMBDA p : p.period = "future")
        futurePrices == JsSlice(future, -hours, Len(future))
    IN  [base EXCEPT !.done = TRUE, !.op = "getFuturePrices", !.status = "success",
                     !.rawH = rawH, !.hours = hours, !.served = prices,
                     !.result = [i \in DOMAIN futurePrices |-> PriceOf(futurePrices[i])]]

\* getFuturePrices(hours = 24): prices.filter(future).slice(0, hours)
GetFuturePrices(base, prices, rawH) ==
    LET hours        == DefaultTo(rawH, 24)
        future       == SelectSeq(prices, LAMBDA p : p.period = "future")
        futurePrices == JsSlice(future, 0, hours)
    IN  [base EXCEPT !.done = TRUE, !.op = "getFuturePrices", !.status = "success",
                     !.rawH = rawH, !.hours = hours, !.served = prices,
                     !.result = [i \in DOMAIN futurePrices |-> PriceOf(futurePrices[i])]]

\* getCurrentPrice: prices.find(current); reading current.price of undefined
\* throws a TypeError.
GetCurrentPrice(base, prices) ==
    LET current == SelectSeq(prices, LAMBDA p : p.period = "current")
        b       == [base EXCEPT !.op = "getCurrentPrice", !.served = prices]
    IN  IF current = <<>> THEN ThrownOut(b, "TypeError")
        ELSE [b EXCEPT !.done = TRUE, !.status = "success",
                       !.result = <<PriceOf(current[1])>>,
                       !.currentPrice = Some(current[1].price)]

----------------------------------------------------------------------------
(* The inputs of a request *)

\* msg.payload.action
Ops == {"recommendBestTime", "other"}

\* msg.payload.duration: absent, "abc", -1, 0, 1, 1.5, 2, 3
NrRawDurations == {Undefined, Text, Num(-1), Num(0), Num(1), NumHalf(1), Num(2), Num(3)}

\* msg.payload.lookAheadHours: absent, "abc", -1, 0, 1, 2, 169
NrRawLookAheads == {Undefined, Text, Num(-1), Num(0), Num(1), Num(2), Num(169)}

\* durationHours of the library call
LibRawDurations == {Undefined, Num(-1), Num(0), Num(1), Num(2), Num(3)}

\* lookAheadHours of the library call
LibRawLookAheads == {Undefined, Num(-1), Num(0), Num(1), Num(2)}

\* hours of getPastPrices and getFuturePrices
LibRawHours == {Undefined, Num(0), Num(1), Num(2)}

\* Spec: the inputs of the requests of the stateful model, narrower.
SpecOps == {"recommendBestTime", "other"}

SpecNrRawDurations == {Num(1), Num(2)}

SpecNrRawLookAheads == {Text, Num(0), Num(1), Num(169)}

SpecLibRawDurations == {Num(1), Num(2)}

SpecLibRawLookAheads == {Num(0), Num(1), Undefined}

\* nodered: the API is asked for [start, end), both formatted to the hour (the
\* formatter writes the minutes as 00); the modelled responses start `offsets`
\* hours after the start of the range.
NrApiResponses(now, lookAheadHours, offsets, resolutions, maxPos, amounts) ==
    Responses({TruncHour(now) + k * MS_PER_HOUR : k \in offsets},
              TruncHour(now), TruncHour(now + lookAheadHours * 60 * 60 * 1000),
              resolutions, maxPos, amounts)

\* library: the API is asked for yesterday 00:00 UTC to the day after tomorrow
\* 00:00 UTC; the modelled responses start `offsets` hours from the current
\* hour.
LibApiResponses(now, offsets, resolutions, maxPos, amounts) ==
    Responses({TruncHour(now) + k * MS_PER_HOUR : k \in offsets},
              TruncDay(now) - 24 * MS_PER_HOUR, TruncDay(now) + 2 * 24 * MS_PER_HOUR,
              resolutions, maxPos, amounts)

----------------------------------------------------------------------------
(* State *)

Reqs == 1..MaxReq

IdleReq == [pc |-> "idle", base |-> NoOut]

EmptyPriceCache == [data |-> None, timestamp |-> None, expiryMs |-> Some(InitialExpiryMs)]

NoInput ==
    [now |-> 0, rawL |-> Undefined, rawD |-> Undefined, rawH |-> Undefined, op |-> "",
     resp |-> <<>>]

Init ==
    /\ program \in {"nodered", "library"}
    /\ clock = T0
    /\ apiKey \in BOOLEAN
    /\ entsoePriceCache = None
    /\ priceCache = EmptyPriceCache
    /\ reqs = [r \in Reqs |-> IdleReq]
    /\ out = NoOut
    /\ fnIn = NoInput

\* The handler's derived list written back over the series it was derived
\* from, as an aggregation, filter or sort done in place would.
SeriesReplacedByDerived(prices, derived) == derived

\* The series object after a handler worked on it: forEach, filter, slice,
\* map and Array.from only read `prices` and build the derived list (the
\* hourly entries, the current-and-future entries) as a new array.
SeriesAfterHandler(prices, derived) == prices

\* The requests whose fetch is in flight.
InFlight == {r \in Reqs : reqs[r].pc = "fetching"}

----------------------------------------------------------------------------
(* nodered: one incoming message *)

\* The validity test with <= : an entry exactly CACHE_LIFESPAN old is served.
NrCacheValidInclusive(cache, now) ==
    cache # None /\ now - cache[1].timestamp <= CACHE_LIFESPAN

\* cachedData && now - cachedData.timestamp < CACHE_LIFESPAN
NrCacheValid(cache, now) ==
    cache # None /\ now - cache[1].timestamp < CACHE_LIFESPAN

\* The message arrives: the look-ahead is validated, the cache is looked up;
\* on a hit the handler runs to its end, on a miss the API request goes out,
\* unless env.get("ENTSOE_API_KEY") is empty: then the handler throws.
NrReceive(r) ==
    /\ program = "nodered"
    /\ reqs[r].pc = "idle"
    /\ \E rawL \in SpecNrRawLookAheads :
        LET l    == NrLookAhead(rawL)
            base == [NoOut EXCEPT !.now = clock, !.rawL = rawL, !.apiKey = apiKey]
            b    == [base EXCEPT !.lookAhead = l.n, !.lookedUp = TRUE,
                                 !.cacheAge = IF entsoePriceCache = None THEN None
                                              ELSE Some(clock - entsoePriceCache[1].timestamp)]
        IN  IF NrLookAheadInvalid(l)
            THEN /\ out' = ErrorOut(base, "invalidLookAhead")
                 /\ UNCHANGED <<reqs, entsoePriceCache>>
            ELSE IF NrCacheValid(entsoePriceCache, clock)
            THEN /\ \E op \in SpecOps, rawD \in SpecNrRawDurations :
                        out' = NrRespond([b EXCEPT !.cacheData = Some(entsoePriceCache[1].data)],
                                         entsoePriceCache[1].data, op, rawD)
                 /\ entsoePriceCache' =
                        Some([entsoePriceCache[1] EXCEPT
                                 !.data = SeriesAfterHandler(@, AggregateHourly(@))])
                 /\ UNCHANGED reqs
            ELSE IF ~apiKey
            THEN /\ out' = ThrownOut(b, "notConfigured")
                 /\ UNCHANGED <<reqs, entsoePriceCache>>
            ELSE /\ reqs' = [reqs EXCEPT ![r] = [pc |-> "fetching",
                                                 base |-> [b EXCEPT !.fetched = TRUE]]]
                 /\ out' = NoOut
                 /\ UNCHANGED entsoePriceCache
    /\ UNCHANGED <<program, clock, apiKey, priceCache, fnIn>>

\* The API answers: the parsed prices are cached under the time the request
\* started, and the handler runs to its end.
NrFetchOk(r) ==
    /\ program = "nodered"
    /\ reqs[r].pc = "fetching"
    /\ \E resp \in NrApiResponses(reqs[r].base.now, reqs[r].base.lookAhead,
                                    {0}, SpecResolutions, MaxPos, SpecAmounts),
          op \in SpecOps, rawD \in SpecNrRawDurations :
        /\ entsoePriceCache' =
               Some([timestamp |-> reqs[r].base.now,
                     data |-> SeriesAfterHandler(NrParse(resp), AggregateHourly(NrParse(resp)))])
        /\ out' = NrRespond([reqs[r].base EXCEPT !.stored = TRUE], NrParse(resp), op, rawD)
    /\ reqs' = [reqs EXCEPT ![r] = IdleReq]
    /\ UNCHANGED <<program, clock, apiKey, priceCache, fnIn>>

\* The API call or the parsing fails: the exception leaves the handler (nodered
\* logs it, the library call rejects); the cache is not touched.
FetchFail(r) ==
    /\ reqs[r].pc = "fetching"
    /\ out' = ThrownOut(reqs[r].base, "fetchFailed")
    /\ reqs' = [reqs EXCEPT ![r] = IdleReq]
    /\ UNCHANGED <<program, clock, apiKey, entsoePriceCache, priceCache, fnIn>>

----------------------------------------------------------------------------
(* library: one call of recommendBestTime *)

\* The validity test with the initial expiry of one hour kept for an entry
\* that carries none.
LibCacheValidDefaultExpiry(cache, now) ==
    /\ cache.data # None
    /\ cache.timestamp # None
    /\ cache.timestamp[1] # 0
    /\ now - cache.timestamp[1] < (IF cache.expiryMs = None THEN InitialExpiryMs
                                   ELSE cache.expiryMs[1])

\* priceCache.data && priceCache.timestamp
\*   && (now - priceCache.timestamp) < priceCache.expiryMs
\* (a comparison with undefined is false)
LibCacheValid(cache, now) ==
    /\ cache.data # None
    /\ cache.timestamp # None
    /\ cache.timestamp[1] # 0
    /\ cache.expiryMs # None
    /\ now - cache.timestamp[1] < cache.expiryMs[1]

\* recommendBestTime calls getPriceData: on a hit the call runs to its end, on
\* a miss the API request goes out. Without ENTSOE_API_TOKEN the module throws
\* when it is loaded and there is nothing to call.
LibCall(r) ==
    /\ program = "library"
    /\ apiKey
    /\ reqs[r].pc = "idle"
    /\ LET b == [NoOut EXCEPT !.now = clock, !.lookedUp = TRUE, !.apiKey = apiKey,
                              !.cacheAge = IF priceCache.data = None \/ priceCache.timestamp = None
                                           THEN None
                                           ELSE Some(clock - priceCache.timestamp[1])]
       IN  IF LibCacheValid(priceCache, clock)
           THEN /\ \E rawD \in SpecLibRawDurations, rawL \in SpecLibRawLookAheads :
                       /\ out' = Recommend([b EXCEPT !.cacheData = priceCache.data],
                                           priceCache.data[1], rawD, rawL, FALSE)
                       /\ priceCache' =
                              [priceCache EXCEPT
                                  !.data = Some(SeriesAfterHandler(
                                                   @[1],
                                                   LibCandidates(@[1], DefaultTo(rawL, DefaultLookAheadLibrary))))]
                /\ UNCHANGED reqs
           ELSE /\ reqs' = [reqs EXCEPT ![r] = [pc |-> "fetching",
                                                base |-> [b EXCEPT !.fetched = TRUE]]]
                /\ out' = NoOut
                /\ UNCHANGED priceCache
    /\ UNCHANGED <<program, clock, apiKey, entsoePriceCache, fnIn>>

\* The API answers: the prices are labelled against the hour of the answer and
\* cached under the time the call started; the new priceCache object has no
\* expiryMs.
LibFetchOk(r) ==
    /\ program = "library"
    /\ reqs[r].pc = "fetching"
    /\ \E resp \in LibApiResponses(reqs[r].base.now, {-1}, SpecResolutions, MaxPos, SpecAmounts),
          rawD \in SpecLibRawDurations, rawL \in SpecLibRawLookAheads :
        LET categorizedPrices == Categorize(LibParse(resp), clock)
        IN  /\ priceCache' = [data |-> Some(SeriesAfterHandler(
                                               categorizedPrices,
                                               LibCandidates(categorizedPrices,
                                                             DefaultTo(rawL, DefaultLookAheadLibrary)))),
                              timestamp |-> Some(reqs[r].base.now),
                              expiryMs |-> None]
            /\ out' = Recommend([reqs[r].base EXCEPT !.stored = TRUE],
                                categorizedPrices, rawD, rawL, FALSE)
    /\ reqs' = [reqs EXCEPT ![r] = IdleReq]
    /\ UNCHANGED <<program, clock, apiKey, entsoePriceCache, fnIn>>

----------------------------------------------------------------------------
(* Environment *)

\* Time passes.
Tick ==
    /\ clock < T0 + MaxTicks * TickMs
    /\ clock' = clock + TickMs
    /\ out' = NoOut
    /\ UNCHANGED <<program, apiKey, entsoePriceCache, priceCache, reqs, fnIn>>

\* The cache is cleared: global.set('entsoePriceCache', null) in nodered,
\* clearCache() in the library.
ClearCache ==
    /\ IF program = "nodered"
       THEN /\ entsoePriceCache # None
            /\ entsoePriceCache' = None
            /\ UNCHANGED priceCache
       ELSE /\ priceCache # EmptyPriceCache
            /\ priceCache' = EmptyPriceCache
            /\ UNCHANGED entsoePriceCache
    /\ out' = NoOut
    /\ UNCHANGED <<program, clock, apiKey, reqs, fnIn>>

\* nodered: the environment variable ENTSOE_API_KEY is set or removed (it is
\* read by every request that misses the cache).
SetApiKey ==
    /\ program = "nodered"
    /\ apiKey' = ~apiKey
    /\ out' = NoOut
    /\ UNCHANGED <<program, clock, entsoePriceCache, priceCache, reqs, fnIn>>

Next ==
    \/ \E r \in Reqs : NrReceive(r)
    \/ \E r \in Reqs : NrFetchOk(r)
    \/ \E r \in Reqs : FetchFail(r)
    \/ \E r \in Reqs : LibCall(r)
    \/ \E r \in Reqs : LibFetchOk(r)
    \/ Tick
    \/ ClearCache
    \/ SetApiKey

Spec == Init /\ [][Next]_vars

----------------------------------------------------------------------------
(* SpecFn: one request on an empty cache, evaluated in one step, over the   *)
(* wide input sets: the pipeline parse -> label/aggregate -> scan -> result *)
(* as a function of the upstream response and the request's parameters.     *)

\* The responses one call at `now` may get: for nodered the response is to the
\* range of the (valid) look-ahead; an invalid look-ahead issues no request.
\* <<>> is a response whose periods carry no point (they are skipped).
FnResponses(prog, now, rawL) ==
    IF prog = "nodered"
    THEN IF NrLookAheadInvalid(NrLookAhead(rawL)) THEN {<<>>}
         ELSE {<<>>} \cup NrApiResponses(now, NrLookAhead(rawL).n, {0, 1},
                                         Resolutions, MaxPosFn, Amounts)
    ELSE {<<>>} \cup LibApiResponses(now, {-1, 0, 1}, Resolutions, MaxPosFn, Amounts)

\* msg.payload of one nodered request, the arguments of one library call.
FnParams(prog) ==
    IF prog = "nodered"
    THEN [rawL : NrRawLookAheads, rawD : NrRawDurations, rawH : {Undefined}, op : Ops]
    ELSE [rawL : LibRawLookAheads, rawD : LibRawDurations, rawH : {Undefined},
          op : {"recommendBestTime"}]
         \cup [rawL : {Undefined}, rawD : {Undefined}, rawH : LibRawHours,
                op : {"getPastPrices", "getFuturePrices"}]
         \cup [rawL : {Undefined}, rawD : {Undefined}, rawH : {Undefined},
                op : {"getCurrentPrice"}]

\* What the call returns.
FnResult(prog, in) ==
    IF prog = "nodered"
    THEN LET l    == NrLookAhead(in.rawL)
             base == [NoOut EXCEPT !.now = in.now, !.rawL = in.rawL, !.apiKey = TRUE]
         IN  IF NrLookAheadInvalid(l) THEN ErrorOut(base, "invalidLookAhead")
             ELSE NrRespond([base EXCEPT !.lookAhead = l.n, !.lookedUp = TRUE, !.fetched = TRUE],
                            NrParse(in.resp), in.op, in.rawD)
    ELSE LET base   == [NoOut EXCEPT !.now = in.now, !.lookedUp = TRUE, !.fetched = TRUE,
                                      !.apiKey = TRUE]
             prices == Categorize(LibParse(in.resp), in.now)
         IN  CASE in.op = "getPastPrices" -> GetPastPrices(base, prices, in.rawH)
               [] in.op = "getFuturePrices" -> GetFuturePrices(base, prices, in.rawH)
               [] in.op = "getCurrentPrice" -> GetCurrentPrice(base, prices)
               [] OTHER -> Recommend(base, prices, in.rawD, in.rawL, prog = "legacy")

InitFn ==
    /\ program \in {"nodered", "library", "legacy"}
    /\ clock \in {T0, T0 + TickMs}
    /\ apiKey = TRUE
    /\ entsoePriceCache = None
    /\ priceCache = EmptyPriceCache
    /\ reqs = [r \in Reqs |-> IdleReq]
    /\ out = NoOut
    /\ \E p \in FnParams(program) :
          \E resp \in FnResponses(program, clock, p.rawL) :
             fnIn = [now |-> clock, rawL |-> p.rawL, rawD |-> p.rawD, rawH |-> p.rawH,
                     op |-> p.op, resp |-> resp]

Evaluate ==
    /\ fnIn # NoInput
    /\ ~out.done
    /\ out' = FnResult(program, fnIn)
    /\ UNCHANGED <<program, clock, apiKey, entsoePriceCache, priceCache, reqs, fnIn>>

NextFn == Evaluate

SpecFn == InitFn /\ [][NextFn]_vars

----------------------------------------------------------------------------
(* Properties of one evaluated call (SpecFn) *)

\* The call ran recommendBestTime on a series and reported success.
Succeeded == out.done /\ out.op = "recommendBestTime" /\ out.status = "success"

\* The windows of d consecutive entries of a candidate list.
Windows(list, d) == {SubSeq(list, i, i + d - 1) : i \in 1..(Len(list) - d + 1)}

\* No entry of the served series starts in the current hour.
NoCurrentEntry ==
    \A i \in DOMAIN out.served : TruncHour(out.served[i].timestamp) # TruncHour(out.now)

\* C1: every successful library recommendBestTime call with an integer
\* durationHours >= 1 returns endTime - startTime = durationHours hours exactly.
C1_LibraryEndIsStartPlusDuration ==
    (program \in {"library", "legacy"} /\ Succeeded /\ out.duration >= 1
       /\ out.lookAhead >= 1)
        => out.endInstant - out.startInstant = out.duration * MS_PER_HOUR

C3_WindowIsCheapest ==
    (Succeeded /\ out.duration >= 1 /\ Len(out.candidates) >= out.duration)
        => /\ out.bestSlot \in Windows(out.candidates, out.duration)
           /\ \A w \in Windows(out.candidates, out.duration) :
                 SumPrices(out.bestSlot) <= SumPrices(w)

\* C3 happens: of the two 2-hour windows of three candidates the later one is
\* strictly cheaper, and it is the one returned.
C3_Witness ==
    /\ Succeeded /\ out.duration = 2 /\ Len(out.candidates) = 3
    /\ out.bestSlot = SubSeq(out.candidates, 2, 3)
    /\ SumPrices(out.bestSlot) < SumPrices(SubSeq(out.candidates, 1, 2))

\* C5: when no entry of the series starts in the current hour (and there are
\* entries enough for the duration), recommendBestTime fails with the
\* current-price-unavailable error and reports no current price.
C5_NoCurrentEntryFails ==
    (program \in {"nodered", "library"} /\ out.done /\ out.op = "recommendBestTime"
       /\ NoCurrentEntry /\ out.lookAhead >= 1
       /\ out.duration >= 1 /\ Len(out.candidates) >= out.duration)
        => out.status = "error" /\ out.kind = "noCurrentPrice" /\ out.currentPrice = None

\* C9: a recommendBestTime request with a duration of zero or less never
\* produces a recommendation (a success result).
C9_NonPositiveDurationRejected ==
    (program \in {"nodered", "library"} /\ out.done /\ out.op = "recommendBestTime"
       /\ out.lookAhead >= 1 /\ out.rawD.t = "num" /\ out.rawD.n < 1)
        => out.status = "error"

----------------------------------------------------------------------------
(* Properties of the requests against the cache (Spec) *)

\* What is known of request r: the completed request in `out`, or the request
\* whose fetch is in flight.
Known == {out} \cup {reqs[r].base : r \in InFlight}

\* C4: the window recommendBestTime returns consists only of entries whose
\* hour start lies between the current (truncated) hour and now +
\* lookAheadHours, whether the series was fetched or came from the cache.
C4_WindowWithinLookAhead ==
    Succeeded
        => \A i \in DOMAIN out.bestSlot :
              /\ out.bestSlot[i].timestamp >= TruncHour(out.now)
              /\ out.bestSlot[i].timestamp <= out.now + out.lookAhead * MS_PER_HOUR

\* C6: a request that finds a stored series less than 3,600,000 ms old is
\* served exactly that series and issues no fetch.
C6_FreshCacheIsServed ==
    \A b \in Known :
        (b.lookedUp /\ b.cacheAge # None /\ b.cacheAge[1] < 3600000)
            => ~b.fetched /\ (b.done => b.cacheData # None /\ b.served = b.cacheData[1])

C8_SingleFlight == Cardinality(InFlight) <= 1

\* C10: a request whose lookAheadHours is given and lies outside 1..168 (0 and
\* non-numeric values included) is rejected with the invalid-parameter error
\* before the cache is looked up or a fetch is issued.
C10_LookAheadRejectedFirst ==
    \A b \in Known :
        (b.rawL.t = "str" \/ (b.rawL.t = "num" /\ (b.rawL.n < 1 \/ b.rawL.n > 168)))
            => /\ ~b.lookedUp /\ ~b.fetched
               /\ b.done => (b.status = "error" /\ b.kind = "invalidLookAhead")

----------------------------------------------------------------------------
(* Properties of one evaluated call, continued (SpecFn) *)

\* C11: when fewer candidate entries are available than the duration (an
\* empty series included), recommendBestTime returns the structured
\* insufficient-data error: it neither throws nor returns a recommendation.
C11_TooFewEntriesIsStructuredError ==
    (out.done /\ out.op = "recommendBestTime" /\ out.duration >= 1
       /\ Len(out.candidates) < out.duration)
        => /\ out.status = "error" /\ out.kind = "notEnoughData"
           /\ out.bestSlot = <<>> /\ out.currentPrice = None

\* C11 happens: one candidate entry for a duration of 2.
C11_Witness ==
    /\ out.done /\ out.op = "recommendBestTime" /\ out.duration = 2
    /\ Len(out.candidates) = 1
    /\ out.status = "error" /\ out.kind = "notEnoughData"

\* The hours in which entries of the served series start.
ServedHours == {TruncHour(out.served[i].timestamp) : i \in DOMAIN out.served}

\* The entries of the served series that start in hour h.
ServedIn(h) == SelectSeq(out.served, LAMBDA p : TruncHour(p.timestamp) = h)

\* price is sum / n rounded to the nearest unit (1/100 cent), halves upwards.
IsRoundedMean(price, sum, n) ==
    /\ 2 * price * n - n <= 2 * sum
    /\ 2 * sum < 2 * price * n + n

\* C12: in the Node-RED function the points that fall in one clock hour are
\* aggregated into exactly one hourly entry, whose price is the arithmetic
\* mean of their prices rounded to 2 decimals; hours without points get none.
C12_HourlyEntryIsRoundedMean ==
    (program = "nodered" /\ out.done /\ out.lookedUp /\ out.status # "thrown")
        => /\ Len(out.candidates) = Cardinality(ServedHours)
           /\ \A h \in ServedHours :
                 \E i \in DOMAIN out.candidates :
                    /\ out.candidates[i].timestamp = h
                    /\ IsRoundedMean(out.candidates[i].price,
                                     SumPrices(ServedIn(h)), Len(ServedIn(h)))

\* C12 happens: three points of one hour, not all of one price, whose mean
\* is not a whole number of hundredths and is rounded upwards.
C12_Witness ==
    /\ program = "nodered" /\ out.done /\ Len(out.candidates) = 1
    /\ Len(out.served) = 3
    /\ SumPrices(out.served) % 3 = 2
    /\ out.served[1].price # out.served[3].price

\* The series the operation worked on: the hourly aggregation in nodered, the
\* series getPriceData returned in the library.
WorkedSeries == IF program = "nodered" THEN out.candidates ELSE out.served

\* C13: the series an operation works on has at most one entry per clock hour
\* and strictly increasing hour starts, whatever the upstream resolution.
C13_OneEntryPerHourIncreasing ==
    (program \in {"nodered", "library"} /\ out.done /\ out.lookedUp
       /\ out.status # "thrown")
        => \A i, j \in DOMAIN WorkedSeries :
              i < j => TruncHour(WorkedSeries[i].timestamp) < TruncHour(WorkedSeries[j].timestamp)

\* The entries of the served series, as the price queries return them.
ServedPrices == [i \in DOMAIN out.served |-> PriceOf(out.served[i])]

\* The served entries that start before, in and after the current hour.
PastServed == SelectSeq(ServedPrices, LAMBDA p : TruncHour(p.timestamp) < TruncHour(out.now))

CurrentServed == SelectSeq(ServedPrices, LAMBDA p : TruncHour(p.timestamp) = TruncHour(out.now))

FutureServed == SelectSeq(ServedPrices, LAMBDA p : TruncHour(p.timestamp) > TruncHour(out.now))

Ascending(s) == \A i, j \in DOMAIN s : i < j => s[i].timestamp <= s[j].timestamp

\* C14: getPastPrices(hours), hours >= 0, returns in ascending order exactly
\* the min(hours, P) most recent of the P entries before the current hour.
C14_PastPricesMostRecent ==
    (program \in {"library", "legacy"} /\ out.done /\ out.op = "getPastPrices"
       /\ out.hours >= 0)
        => LET P == Len(PastServed)
               n == Min(out.hours, P)
           IN  /\ out.result = SubSeq(PastServed, P - n + 1, P)
               /\ Len(out.result) <= out.hours
               /\ Ascending(out.result)

\* C15: getFuturePrices(hours) returns in ascending order exactly the first
\* min(hours, F) of the F entries after the current hour, and no past entry.
C15_FuturePricesFirst ==
    (program \in {"library", "legacy"} /\ out.done /\ out.op = "getFuturePrices"
       /\ out.hours >= 0)
        => LET F == Len(FutureServed)
               n == Min(out.hours, F)
           IN  /\ out.result = SubSeq(FutureServed, 1, n)
               /\ Ascending(out.result)
               /\ \A i \in DOMAIN out.result :
                     TruncHour(out.result[i].timestamp) > TruncHour(out.now)

\* C15 happens: getFuturePrices(1) on a series with the current entry and two
\* future entries returns the first future entry.
C15_Witness ==
    /\ out.done /\ out.op = "getFuturePrices" /\ out.hours = 1
    /\ Len(CurrentServed) >= 1 /\ Len(FutureServed) = 2
    /\ out.result = <<FutureServed[1]>>

\* C16: getCurrentPrice returns the entry of the current hour when the series
\* has one, and otherwise fails with the current-price-unavailable error.
C16_CurrentPriceOrNoCurrentData ==
    (program \in {"library", "legacy"} /\ out.op = "getCurrentPrice" /\ out.done)
        => IF CurrentServed # <<>>
           THEN out.status = "success" /\ out.result = <<CurrentServed[1]>>
           ELSE out.status = "error" /\ out.kind = "noCurrentPrice" /\ out.result = <<>>

----------------------------------------------------------------------------
(* Properties of the requests against the cache, continued (Spec) *)

\* The caller got an error outcome: a structured error result, or in the
\* library a rejected call; an exception in the Node-RED handler is only
\* logged and no message is sent.
CallerGotError ==
    \/ out.status = "error"
    \/ program # "nodered" /\ out.status = "thrown"

\* C17: when the fetch of a request fails, the caller of that request
\* receives an error outcome and no recommendation.
C17_FetchFailureReachesCaller ==
    (out.done /\ out.kind = "fetchFailed")
        => CallerGotError /\ out.bestSlot = <<>> /\ out.currentPrice = None

\* C18: a request handled while no API credential is configured issues no
\* fetch and does not succeed, whatever the cache holds.
C18_NoCredentialNoSuccess ==
    \A b \in Known :
        ((b.done \/ b.lookedUp) /\ ~b.apiKey)
            => ~b.fetched /\ b.status # "success"

----------------------------------------------------------------------------
(* Properties of the reported savings (SpecFn) *)

\* savings / currentPrice * 100 rounded to one decimal, in 1/100 percent, for
\* savings = currentPrice - the mean of the chosen window.
OneDecimalPercentage ==
    10 * RoundDiv(1000 * (out.currentPrice[1] * Len(out.bestSlot) - SumPrices(out.bestSlot)),
                  Len(out.bestSlot) * out.currentPrice[1])

\* C19: whenever a recommendation is returned with a current price above 0,
\* savingsPercentage equals savings / currentPrice * 100 rounded to 1 decimal
\* place, where savings = currentPrice - the average of the winning window.
C19_SavingsPercentageOneDecimal ==
    (Succeeded /\ program \in {"nodered", "library"} /\ out.lookAhead >= 1
               /\ out.duration >= 1 /\ out.bestSlot # <<>> /\ out.currentPrice[1] > 0)
        => out.savingsPercentage = Finite(OneDecimalPercentage)

\* C20: a recommendation returned while the current price is 0 or negative
\* reports savingsPercentage = 0.
C20_NonPositiveCurrentPriceGivesZero ==
    (Succeeded /\ program \in {"nodered", "library"} /\ out.lookAhead >= 1
               /\ out.duration >= 1 /\ out.currentPrice[1] <= 0)
        => out.savingsPercentage = Finite(0)

\* currentPrice - the mean of the chosen window, times the window's length:
\* its sign is the sign of the savings.
SavingsTimesLen ==
    out.currentPrice[1] * Len(out.bestSlot) - SumPrices(out.bestSlot)

\* C21: the message of a recommendation is chosen by the sign of the savings:
\* savings > 0 gives the potential-savings text, savings < 0 the
\* more-expensive-than-now note and savings = 0 an equal-price text (the
\* library's 'Current time is already optimal' is taken as one).
C21_MessageBySignOfSavings ==
    (Succeeded /\ program \in {"nodered", "library"} /\ out.lookAhead >= 1
               /\ out.duration >= 1 /\ out.bestSlot # <<>>)
        => /\ SavingsTimesLen > 0 => out.message = "potentialSavings"
           /\ SavingsTimesLen < 0 => out.message = "moreThanCurrent"
           /\ SavingsTimesLen = 0 => out.message \in {"sameAsCurrent", "alreadyOptimal"}

\* The window of out.duration candidate entries that starts at index i.
WindowAt(i) == SubSeq(out.candidates, i, i + out.duration - 1)

\* The start indices of the windows whose average is the lowest.
CheapestStarts ==
    {i \in 1..(Len(out.candidates) - out.duration + 1) :
        \A j \in 1..(Len(out.candidates) - out.duration + 1) :
            SumPrices(WindowAt(i)) <= SumPrices(WindowAt(j))}

C23_WindowIsConsecutiveHours ==
    (Succeeded /\ program \in {"nodered", "library"} /\ out.lookAhead >= 1
               /\ out.duration >= 1)
        => \A i \in 2..Len(out.bestSlot) :
              out.bestSlot[i].timestamp = out.bestSlot[i - 1].timestamp + MS_PER_HOUR

----------------------------------------------------------------------------
(* Properties of the parsed series (SpecFn) *)

\* The minutes per position: 15 for PT15M, 30 for PT30M, 60 for PT60M and 60
\* for anything else.
MinutesPerPosition(resolution) ==
    CASE resolution = "PT15M" -> 15
      [] resolution = "PT30M" -> 30
      [] resolution = "PT60M" -> 60
      [] OTHER -> 60

\* A call was evaluated on a response that carries a period.
ParsedAPeriod == fnIn # NoInput /\ out.done /\ out.lookedUp /\ fnIn.resp # <<>>

\* C24: each raw point at 1-based position p of a period gets the timestamp
\* periodStart + (p - 1) * r minutes, r = 15 for PT15M, 30 for PT30M, 60 for
\* PT60M and 60 for an unrecognised resolution; one entry per point.
C24_PointTimestamp ==
    ParsedAPeriod
        => LET period == fnIn.resp[1]
           IN  /\ Len(out.served) = Len(period.points)
               /\ \A i \in DOMAIN period.points :
                     out.served[i].timestamp =
                         period.start + (period.points[i].position - 1)
                                          * MinutesPerPosition(period.resolution)
                                          * MS_PER_MINUTE

\* C24 happens: a period of an unrecognised resolution with a point at
\* position 2, which is placed one hour after the period's start.
C24_Witness ==
    /\ ParsedAPeriod
    /\ fnIn.resp[1].resolution = "P1D"
    /\ Len(fnIn.resp[1].points) = 2
    /\ fnIn.resp[1].points[2].position = 2
    /\ out.served[2].timestamp = fnIn.resp[1].start + MS_PER_HOUR

----------------------------------------------------------------------------
(* Properties of the cache entry (Spec) *)

\* The stored series; <<>> when nothing is stored.
StoredSeries ==
    IF program = "nodered"
    THEN IF entsoePriceCache = None THEN <<>> ELSE entsoePriceCache[1].data
    ELSE IF priceCache.data = None THEN <<>> ELSE priceCache.data[1]

\* Whether anything is stored.
IsStored == IF program = "nodered" THEN entsoePriceCache # None ELSE priceCache.data # None

\* This step ends a request whose fetch succeeded.
FetchSucceeds ==
    /\ \E r \in Reqs : reqs[r].pc = "fetching" /\ reqs'[r].pc = "idle"
    /\ out'.kind # "fetchFailed"

\* C25: the cache entry changes only by being replaced as a whole, by a
\* successful refetch (which stores the series its request is answered from)
\* or by a clear; every other step, a hit or a miss, a success or a failure,
\* leaves the stored series as it is.
C25_CacheOnlyReplacedByRefetch ==
    [][(entsoePriceCache' # entsoePriceCache \/ priceCache' # priceCache)
          => \/ ~IsStored'
             \/ FetchSucceeds /\ IsStored' /\ StoredSeries' = out'.served]_vars

\* C25 happens: a request was answered from the cache, by an aggregation over
\* the stored series, and the stored series is still what it was served.
C25_Witness ==
    /\ program = "nodered" /\ out.done /\ out.status = "success"
    /\ ~out.fetched /\ out.cacheData # None
    /\ Len(out.cacheData[1]) = 2
    /\ IsStored /\ StoredSeries = out.cacheData[1]

\* The response to this request was malformed: a point without a numeric
\* price.amount.
MalformedResponse(b) == b.fetched /\ HasNaN(b.served)

\* C26: a request whose fetch failed, or whose response was malformed, has
\* not written the cache entry, and no entry of the stored series comes from
\* a malformed point.
C26_FailedFetchStoresNothing ==
    /\ \A b \in Known :
          (b.done /\ (b.kind = "fetchFailed" \/ MalformedResponse(b))) => ~b.stored
    /\ ~HasNaN(StoredSeries)

\* The messages the Node-RED handler of an ended request has sent: each path
\* that sets msg.payload calls node.send(msg) once; an exception goes to the
\* catch block, which only logs.
MessagesSent(b) == IF b.status \in {"success", "error"} THEN 1 ELSE 0

\* C27: in the Node-RED function every request whose handler has ended has
\* produced exactly one output message, with payload.status "success" or
\* "error".
C27_EveryRequestAnswered ==
    (program = "nodered" /\ out.done)
        => MessagesSent(out) = 1 /\ out.status \in {"success", "error"}

\* The fetch timestamp of the stored entry.
StoredTimestamp ==
    IF program = "nodered" THEN entsoePriceCache[1].timestamp ELSE priceCache.timestamp[1]

\* C28: under any interleaving of overlapping requests the fetch timestamp of
\* the stored entry never decreases: when a step replaces a stored entry by
\* another, the new timestamp is not earlier than the old one.
C28_StoredTimestampNeverDecreases ==
    [][(IsStored /\ IsStored') => StoredTimestamp' >= StoredTimestamp]_vars

----------------------------------------------------------------------------
(* Properties of the reported savings, continued (SpecFn) *)

\* C29: whenever recommendBestTime succeeds for a duration of 1, the reported
\* savings, currentPrice - the average of the winning window, are a number
\* that is not negative (the current hour's entry is one of the windows).
C29_SavingsNotNegativeForOneHour ==
    (Succeeded /\ out.duration = 1)
        => /\ out.bestSlot # <<>>
           /\ SavingsTimesLen >= 0
           /\ out.savings.t = "num" /\ out.savings.v >= 0

\* C29 happens: of two candidate hours the current one is strictly the
\* cheapest, it is the window returned and the savings are 0.
C29_Witness ==
    /\ Succeeded /\ out.duration = 1 /\ Len(out.candidates) = 2
    /\ out.candidates[1].price < out.candidates[2].price
    /\ out.currentPrice = Some(out.candidates[1].price)
    /\ out.bestSlot = <<out.candidates[1]>>
    /\ out.savings = Finite(0)

----------------------------------------------------------------------------
(* Properties of the library's labelled series (Spec) *)

\* The label of an entry at instant t: by its truncated hour against the
\* truncated hour of t.
ExpectedLabel(timestamp, t) ==
    CASE TruncHour(timestamp) < TruncHour(t) -> "past"
      [] TruncHour(timestamp) = TruncHour(t) -> "current"
      [] OTHER -> "future"

\* The library's getPriceData has returned a series to the call that just
\* ended.
LibReturned ==
    program = "library" /\ out.done /\ out.lookedUp /\ out.kind # "fetchFailed"

\* C30, as stated: the labels of a series the library's getPriceData returns
\* are according to the hour of the instant t at which the call was made.
C30_LabelsByHourOfCall ==
    LibReturned
        => \A i \in DOMAIN out.served :
              out.served[i].period = ExpectedLabel(out.served[i].timestamp, out.now)

\* C30, amended: the labels of a series the library's getPriceData returns
\* are according to the hour of the instant at which the series is returned
\* (the response has arrived); no label computed in an earlier clock hour is
\* returned.
C30_LabelsByHourOfReturn ==
    LibReturned
        => \A i \in DOMAIN out.served :
              out.served[i].period = ExpectedLabel(out.served[i].timestamp, clock)

\* C30 happens: a call made in one clock hour is answered in the next, and
\* the entry of the hour of the call is returned labelled 'past'.
C30_Witness ==
    /\ LibReturned
    /\ TruncHour(out.now) < TruncHour(clock)
    /\ \E i \in DOMAIN out.served :
          /\ out.served[i].timestamp = TruncHour(out.now)
          /\ out.served[i].period = "past"
====
